---- MODULE Spec2Model ----
(***************************************************************************)
(* State-machine model of the Quivr front end's UI-state derivations: the  *)
(* connection file-selection button (handleConnectionButtons.ts,           *)
(* FeedBrainStep), the bulk Notification component (aggregate status,      *)
(* breakdown lists, batch delete), the sync settings of sync.ts, and the   *)
(* local state of OutputsStep, KnowledgeTable and useLanguageHook.         *)
(***************************************************************************)
EXTENDS Integers, Sequences, FiniteSets, Bags, TLC

VARIABLES
    openedConnections,  \* OpenedConnection[] of the FromConnections context
    currentSyncId,      \* number | undefined of the FromConnections context
    currentConnection,  \* FeedBrainStep's useState<OpenedConnection | undefined>
    button,             \* what handleGetButtonProps returned at the last render
    lastOp,             \* the handler that ran last (history)
    calledWith,         \* the arguments of the callback called last (history)
    arr1, arr2,         \* the arguments of arraysAreEqual
    areEqual,           \* its result
    notifications,      \* bulkNotification.notifications
    category,           \* bulkNotification.category
    errorsOpened,       \* Notification's useState(false)
    successOpened,      \* Notification's useState(false)
    icon,               \* what NotificationIcon rendered
    count,              \* what NotificationCount rendered
    view,               \* what Notification rendered
    store,              \* ids of the rows of the "notifications" table
    delPc,              \* where deleteNotification stands
    requests,           \* per member: the state of its delete promise
    refreshes,          \* how often updateNotifications was called
    syncSelected,       \* openedConnection.selectedFiles handed to sync.ts
    syncRequest,        \* the request syncFiles or updateActiveSync sent
    allBrains,          \* useBrainContext().allBrains of OutputsStep
    existingBrainChecked, \* OutputsStep's useState<boolean>(false)
    newBrainChecked,    \* OutputsStep's useState<boolean>(false)
    selectedBrainId,    \* OutputsStep's useState<string>("")
    brainOutput,        \* the value last handed to setBrainOutput
    brainSelector,      \* the SingleSelector OutputsStep rendered, if any
    lastClick,          \* the OutputsStep handler that ran last (history)
    knowledgeList,      \* the knowledgeList prop of KnowledgeTable
    selectedKnowledge,  \* KnowledgeTable's useState<string[]>([])
    selectHistory,      \* the last two handleSelect calls (history)
    localStorage,       \* the value stored under the key 'selectedLanguage'
    allLanguages,       \* useLanguageHook's useState<Language[]>([])
    currentLanguage,    \* useLanguageHook's useState<Language | null>(null)
    i18nLanguage,       \* the language of the i18n instance
    i18nPending,        \* ids of the changeLanguage calls not yet resolved
    langHistory         \* what ran last in the hook, on which input (history)

feedVars   == <<openedConnections, currentSyncId, currentConnection, button,
               lastOp, calledWith>>
arrayVars  == <<arr1, arr2, areEqual>>
notifVars  == <<notifications, category, errorsOpened, successOpened, icon, count, view>>
deleteVars == <<store, delPc, requests, refreshes>>
syncVars   == <<syncSelected, syncRequest>>
outputsVars == <<allBrains, existingBrainChecked, newBrainChecked,
                selectedBrainId, brainOutput, brainSelector, lastClick>>
knowledgeVars == <<knowledgeList, selectedKnowledge, selectHistory>>
langVars   == <<localStorage, allLanguages, currentLanguage, i18nLanguage,
               i18nPending, langHistory>>
uiVars     == <<outputsVars, knowledgeVars, langVars>>
vars       == <<feedVars, arrayVars, notifVars, deleteVars, syncVars, uiVars>>

(***************************************************************************)
(* Bounds.                                                                 *)
(***************************************************************************)
MaxFiles  == 2      \* selected files per connection
MaxLen    == 3      \* length of an id array handed to arraysAreEqual
MaxNotifs == 3      \* member notifications of a bulk notification
MaxSelected == 3    \* selected elements of the connection handed to sync.ts
MaxBrains == 2      \* brains of the brain context shown to OutputsStep
MaxKnowledge == 3   \* knowledge items listed by KnowledgeTable
MaxPending == 2     \* changeLanguage calls of i18n not yet resolved

(***************************************************************************)
(* Optional values: undefined is <<>>, a defined value v is <<v>>.         *)
(***************************************************************************)
Undefined    == <<>>
Some(x)      == <<x>>
IsDefined(o) == o # <<>>
Get(o)       == o[1]

SeqsUpTo(S, n) == UNION {[1..k -> S] : k \in 0..n}

(***************************************************************************)
(* Ids.  A file id is a string, modelled as its sequence of UTF-16 code    *)
(* units ("a", "ab", "b"); a connection id is a number or undefined.       *)
(***************************************************************************)
FileIds  == {<<97>>, <<97, 98>>}
ArrayIds == FileIds \cup {<<98>>}
SyncIds  == {1, 2}
ConnIds  == {Undefined} \cup {Some(i) : i \in SyncIds}
MaxOpened == Cardinality(SyncIds)

Files == [id : FileIds]
SelectedFiles == [files : SeqsUpTo(Files, MaxFiles)]
OpenedConnection ==
    [id : ConnIds, submitted : BOOLEAN, selectedFiles : SelectedFiles]

(***************************************************************************)
(* handleConnectionButtons.ts                                              *)
(***************************************************************************)
\* isRemoveAll reading the files of currentConnection, not of the match.
isRemoveAllOwnFiles(matchingOpenedConnection, cc) ==
    IF IsDefined(cc)
    THEN Get(cc).submitted /\ Len(Get(cc).selectedFiles.files) = 0
    ELSE FALSE

\* isRemoveAll without the test of currentConnection.submitted.
isRemoveAllNoSubmitted(matchingOpenedConnection, cc) ==
    Len(matchingOpenedConnection.selectedFiles.files) = 0

isRemoveAll(matchingOpenedConnection, cc) ==
    IF IsDefined(cc)
    THEN Get(cc).submitted
         /\ Len(matchingOpenedConnection.selectedFiles.files) = 0
    ELSE FALSE

\* arraysAreEqual without its length test: only a's positions are compared.
arraysAreEqualNoLength(a, b) ==
    \A i \in 1..Len(a) : i <= Len(b) /\ a[i] = b[i]

arraysAreEqual(a, b) ==
    IF Len(a) # Len(b)
    THEN FALSE
    ELSE \A i \in 1..Len(a) : a[i] = b[i]

\* The default comparator of Array.prototype.sort: strings by code units.
RECURSIVE StrLess(_, _)
StrLess(s, t) ==
    IF t = <<>> THEN FALSE
    ELSE IF s = <<>> THEN TRUE
    ELSE IF s[1] # t[1] THEN s[1] < t[1]
    ELSE StrLess(Tail(s), Tail(t))

RECURSIVE Insert(_, _)
Insert(x, s) ==
    IF s = <<>> THEN <<x>>
    ELSE IF StrLess(x, s[1]) THEN <<x>> \o s
    ELSE <<s[1]>> \o Insert(x, Tail(s))

RECURSIVE Sort(_)
Sort(s) == IF s = <<>> THEN <<>> ELSE Insert(s[1], Sort(Tail(s)))

\* files.map((file) => file.id)
MapIds(files) == [i \in 1..Len(files) |-> files[i].id]

\* The ids without the .sort().
UnsortedFileIds(files) == MapIds(files)

\* files.map((file) => file.id).sort()
SortedFileIds(files) == Sort(MapIds(files))

\* Array.prototype.find on the connection id: the first match or undefined.
FindById(conns, id) ==
    LET idx == {i \in 1..Len(conns) : conns[i].id = id}
    IN  IF idx = {} THEN Undefined
        ELSE Some(conns[CHOOSE i \in idx : \A j \in idx : i <= j])

\* The match falling back on currentConnection when find returns undefined.
matchingOrCurrent(cc, oc) ==
    IF IsDefined(cc)
    THEN (IF IsDefined(FindById(oc, Get(cc).id))
          THEN FindById(oc, Get(cc).id) ELSE cc)
    ELSE Undefined

matchingOf(cc, oc) ==
    IF IsDefined(cc) THEN FindById(oc, Get(cc).id) ELSE Undefined

handleGetButtonProps(cc, oc) ==
    LET m == matchingOf(cc, oc)
    IN  IF IsDefined(m) /\ isRemoveAll(Get(m), cc)
        THEN [label |-> "Remove All", type |-> "dangerous",
              disabled |-> FALSE, callback |-> "removeConnection"]
        ELSE IF IsDefined(m) /\ Get(cc).submitted
        THEN LET matchingSelectedFileIds ==
                     SortedFileIds(Get(m).selectedFiles.files)
                 currentSelectedFileIds ==
                     SortedFileIds(Get(cc).selectedFiles.files)
                 isDisabled == arraysAreEqual(matchingSelectedFileIds,
                                              currentSelectedFileIds)
             IN  [label |-> "Update added files", type |-> "primary",
                  disabled |-> (Len(Get(m).selectedFiles.files) = 0
                                \/ isDisabled),
                  callback |-> "addConnection"]
        ELSE [label |-> "Add specific files", type |-> "primary",
              disabled |-> IF IsDefined(m)
                           THEN Len(Get(m).selectedFiles.files) = 0
                           ELSE TRUE,
              callback |-> "addConnection"]

(***************************************************************************)
(* Values of the variables a specification does not use.                   *)
(***************************************************************************)
FeedIdle ==
    /\ openedConnections = <<>>
    /\ currentSyncId = Undefined
    /\ currentConnection = Undefined
    /\ button = Undefined
    /\ lastOp = "none"
    /\ calledWith = Undefined

ArrayIdle == arr1 = <<>> /\ arr2 = <<>> /\ areEqual = Undefined

NotifIdle ==
    /\ notifications = <<>>
    /\ category = "upload"
    /\ errorsOpened = FALSE
    /\ successOpened = FALSE
    /\ icon = Undefined
    /\ count = Undefined
    /\ view = Undefined

DeleteIdle ==
    /\ store = {}
    /\ delPc = "idle"
    /\ requests = <<>>
    /\ refreshes = 0

SyncIdle == syncSelected = <<>> /\ syncRequest = Undefined

OutputsIdle ==
    /\ allBrains = <<>>
    /\ existingBrainChecked = FALSE
    /\ newBrainChecked = FALSE
    /\ selectedBrainId = ""
    /\ brainOutput = Undefined
    /\ brainSelector = Undefined
    /\ lastClick = "none"

KnowledgeIdle ==
    knowledgeList = <<>> /\ selectedKnowledge = <<>> /\ selectHistory = <<>>

LangIdle ==
    /\ localStorage = Undefined
    /\ allLanguages = <<>>
    /\ currentLanguage = Undefined
    /\ i18nLanguage = "en"
    /\ i18nPending = <<>>
    /\ langHistory = Undefined

UiIdle == OutputsIdle /\ KnowledgeIdle /\ LangIdle

(***************************************************************************)
(* SpecButton: handleGetButtonProps on every pair of arguments.            *)
(***************************************************************************)
ButtonInit ==
    /\ openedConnections \in SeqsUpTo(OpenedConnection, MaxOpened)
    /\ currentConnection \in {Undefined} \cup {Some(c) : c \in OpenedConnection}
    /\ currentSyncId = Undefined
    /\ button = Undefined
    /\ lastOp = "none"
    /\ calledWith = Undefined
    /\ ArrayIdle /\ NotifIdle /\ DeleteIdle /\ SyncIdle /\ UiIdle

GetButtonProps ==
    /\ button = Undefined
    /\ button' = Some(handleGetButtonProps(currentConnection, openedConnections))
    /\ lastOp' = "handleGetButtonProps"
    /\ UNCHANGED <<openedConnections, currentSyncId, currentConnection>>
    /\ UNCHANGED <<calledWith, arrayVars, notifVars, deleteVars, syncVars, uiVars>>

ButtonNext == GetButtonProps

SpecButton == ButtonInit /\ [][ButtonNext]_vars

(***************************************************************************)
(* Predicates on the arguments of handleGetButtonProps, stated without    *)
(* its helpers.                                                            *)
(***************************************************************************)
\* cc has an entry in openedConnections and i is the first one with its id.
IsMatchingIndex(i) ==
    /\ IsDefined(currentConnection)
    /\ i \in 1..Len(openedConnections)
    /\ openedConnections[i].id = Get(currentConnection).id
    /\ \A j \in 1..(i - 1) :
           openedConnections[j].id # Get(currentConnection).id

HasMatching == \E i \in 1..Len(openedConnections) : IsMatchingIndex(i)

\* The new selection: the files of the matching entry.
NewSelection ==
    openedConnections[CHOOSE i \in 1..Len(openedConnections) :
                          IsMatchingIndex(i)].selectedFiles.files

\* The previously matched selection: the files of currentConnection.
OldSelection == Get(currentConnection).selectedFiles.files

Occurrences(s, x) == Cardinality({i \in 1..Len(s) : s[i] = x})

\* The same ids, each as many times, in any order.
SameMultiset(s, t) ==
    \A x \in {s[i] : i \in 1..Len(s)} \cup {t[i] : i \in 1..Len(t)} :
        Occurrences(s, x) = Occurrences(t, x)

PreviouslySubmitted ==
    IsDefined(currentConnection) /\ Get(currentConnection).submitted

NeverSubmitted ==
    IsDefined(currentConnection) /\ ~Get(currentConnection).submitted

\* C1: a previously submitted connection whose new selection is empty gets
\* "Remove All", dangerous and enabled, whatever its old selection was.
C1_RemoveAllWhenEmptied ==
    (IsDefined(button) /\ PreviouslySubmitted /\ HasMatching
        /\ Len(NewSelection) = 0)
    => /\ Get(button).label = "Remove All"
       /\ Get(button).type = "dangerous"
       /\ Get(button).disabled = FALSE

C1_Witness ==
    /\ IsDefined(button) /\ PreviouslySubmitted /\ HasMatching
    /\ Len(NewSelection) = 0
    /\ Len(OldSelection) > 0
    /\ Get(button).label = "Remove All"

\* C2 as stated: a previously submitted connection whose selection has the
\* same sorted ids as before always gets a disabled button.
C2_UnchangedIsDisabled ==
    (IsDefined(button) /\ PreviouslySubmitted /\ HasMatching
        /\ SameMultiset(MapIds(NewSelection), MapIds(OldSelection)))
    => Get(button).disabled = TRUE

\* C2, amended: a previously submitted connection whose new selection is not
\* empty and has the same sorted ids as before gets a disabled button, and
\* "Update added files" is enabled only when the sorted id lists differ.
C2_UnchangedNonEmptyIsDisabled ==
    /\ (IsDefined(button) /\ PreviouslySubmitted /\ HasMatching
           /\ Len(NewSelection) > 0
           /\ SameMultiset(MapIds(NewSelection), MapIds(OldSelection)))
       => (Get(button).disabled = TRUE
           /\ Get(button).label = "Update added files")
    /\ (IsDefined(button) /\ Get(button).label = "Update added files"
           /\ Get(button).disabled = FALSE)
       => (HasMatching
           /\ ~SameMultiset(MapIds(NewSelection), MapIds(OldSelection)))

C2_Witness ==
    /\ IsDefined(button) /\ PreviouslySubmitted /\ HasMatching
    /\ Len(NewSelection) > 1
    /\ NewSelection # OldSelection
    /\ SameMultiset(MapIds(NewSelection), MapIds(OldSelection))
    /\ Get(button).disabled = TRUE

\* C3: a never-submitted connection gets "Add specific files", primary,
\* enabled when at least one file is selected and disabled when none is.
C3_AddWhenNeverSubmitted ==
    (IsDefined(button) /\ NeverSubmitted)
    => /\ Get(button).label = "Add specific files"
       /\ Get(button).type = "primary"
       /\ Get(button).disabled
              = ~(HasMatching /\ Len(NewSelection) > 0)

C3_Witness ==
    /\ IsDefined(button) /\ NeverSubmitted /\ HasMatching
    /\ Len(NewSelection) > 0
    /\ Get(button).label = "Add specific files"
    /\ Get(button).disabled = FALSE

RemoveAllButton == [label |-> "Remove All", type |-> "dangerous"]
UpdateButton    == [label |-> "Update added files", type |-> "primary"]
AddButton       == [label |-> "Add specific files", type |-> "primary"]

Affordance(b) == [label |-> b.label, type |-> b.type]

\* C11: handleGetButtonProps returns, for every pair of arguments, one of
\* the three affordances, chosen in the order of the decision table; the
\* type is dangerous iff the label is "Remove All"; with no current
\* connection or no matching entry it is "Add specific files", disabled.
C11_OneOfThreeAffordances ==
    /\ lastOp = "handleGetButtonProps" => IsDefined(button)
    /\ IsDefined(button)
       => /\ Affordance(Get(button)) \in {RemoveAllButton, UpdateButton, AddButton}
          /\ (Get(button).type = "dangerous") = (Get(button).label = "Remove All")
          /\ Get(button).disabled \in BOOLEAN
          /\ HasMatching
             => Affordance(Get(button)) =
                    IF PreviouslySubmitted /\ Len(NewSelection) = 0
                    THEN RemoveAllButton
                    ELSE IF PreviouslySubmitted THEN UpdateButton
                    ELSE AddButton
          /\ (~IsDefined(currentConnection) \/ ~HasMatching)
             => /\ Affordance(Get(button)) = AddButton
                /\ Get(button).disabled = TRUE

\* A submitted connection that has no entry in openedConnections.
C11_Witness ==
    /\ IsDefined(button)
    /\ PreviouslySubmitted
    /\ Len(OldSelection) > 0
    /\ ~HasMatching
    /\ Len(openedConnections) > 0
    /\ Get(button).label = "Add specific files"

IdSet(files) == {files[i].id : i \in 1..Len(files)}

\* C15: a previously submitted connection whose new selection is not empty
\* and has another set of file ids than before gets "Update added files",
\* enabled.
C15_RealChangeIsEnabled ==
    (IsDefined(button) /\ PreviouslySubmitted /\ HasMatching
        /\ Len(NewSelection) > 0
        /\ IdSet(NewSelection) # IdSet(OldSelection))
    => /\ Get(button).label = "Update added files"
       /\ Get(button).disabled = FALSE

C15_Witness ==
    /\ IsDefined(button) /\ PreviouslySubmitted /\ HasMatching
    /\ Len(NewSelection) = 1
    /\ Len(OldSelection) = MaxFiles
    /\ IdSet(NewSelection) # IdSet(OldSelection)
    /\ IdSet(NewSelection) \subseteq IdSet(OldSelection)
    /\ Get(button).disabled = FALSE

(***************************************************************************)
(* SpecArrays: the comparison of lines 59-71 on every pair of id arrays.   *)
(***************************************************************************)
ArraysInit ==
    /\ arr1 \in SeqsUpTo(ArrayIds, MaxLen)
    /\ arr2 \in SeqsUpTo(ArrayIds, MaxLen)
    /\ areEqual = Undefined
    /\ FeedIdle /\ NotifIdle /\ DeleteIdle /\ SyncIdle /\ UiIdle

CompareSorted ==
    /\ areEqual = Undefined
    /\ areEqual' = Some(arraysAreEqual(Sort(arr1), Sort(arr2)))
    /\ UNCHANGED <<arr1, arr2>>
    /\ UNCHANGED <<feedVars, notifVars, deleteVars, syncVars, uiVars>>

ArraysNext == CompareSorted

SpecArrays == ArraysInit /\ [][ArraysNext]_vars

IsSorted(s) == \A i \in 1..(Len(s) - 1) : ~StrLess(s[i + 1], s[i])

\* C7: the comparison answers "equal" iff the two inputs hold the same ids
\* the same number of times, in any order; the sorted arrays then agree in
\* length and at every position.
C7_OrderInsensitiveMultisetExact ==
    IsDefined(areEqual)
    => /\ Get(areEqual) = SameMultiset(arr1, arr2)
       /\ Get(areEqual) = (Sort(arr1) = Sort(arr2))
       /\ IsSorted(Sort(arr1)) /\ SameMultiset(Sort(arr1), arr1)
       /\ (Len(arr1) # Len(arr2) => Get(areEqual) = FALSE)

C7_Witness ==
    /\ areEqual = Some(TRUE)
    /\ arr1 # arr2
    /\ Len(arr1) = MaxLen
    /\ \E i, j \in 1..Len(arr1) : i # j /\ arr1[i] = arr1[j]

(***************************************************************************)
(* Spec: FeedBrainStep.  The FromConnections context holds                 *)
(* openedConnections and currentSyncId; FeedBrainStep keeps                *)
(* currentConnection, recomputed by its effect when currentSyncId changes, *)
(* and renders the button handleGetButtonProps returns.                    *)
(***************************************************************************)
\* addConnection building the submitted entry anew, without its files.
addConnectionDropsFiles(prevConnections, syncId) ==
    LET idx == {i \in 1..Len(prevConnections) : prevConnections[i].id = syncId}
    IN  IF idx # {}
        THEN LET connectionIndex == CHOOSE i \in idx : \A j \in idx : i <= j
             IN  [prevConnections EXCEPT
                     ![connectionIndex].submitted = TRUE,
                     ![connectionIndex].selectedFiles = [files |-> <<>>]]
        ELSE prevConnections

\* addConnection marking every entry, whatever its id.
addConnectionEveryEntry(prevConnections, syncId) ==
    [i \in 1..Len(prevConnections) |->
        [prevConnections[i] EXCEPT !.submitted = TRUE]]

\* addConnection marking every entry of the id, not only the first.
addConnectionAllMatches(prevConnections, syncId) ==
    [i \in 1..Len(prevConnections) |->
        IF prevConnections[i].id = syncId
        THEN [prevConnections[i] EXCEPT !.submitted = TRUE]
        ELSE prevConnections[i]]

\* addConnection's updater of openedConnections (lines 100-116).
addConnection(prevConnections, syncId) ==
    LET idx == {i \in 1..Len(prevConnections) : prevConnections[i].id = syncId}
    IN  IF idx # {}
        THEN LET connectionIndex == CHOOSE i \in idx : \A j \in idx : i <= j
             IN  [prevConnections EXCEPT ![connectionIndex].submitted = TRUE]
        ELSE prevConnections

\* removeConnection dropping only the first entry of the id.
removeConnectionFirstOnly(prevConnections, syncId) ==
    LET idx == {i \in 1..Len(prevConnections) : prevConnections[i].id = syncId}
    IN  IF idx = {} THEN prevConnections
        ELSE LET k == CHOOSE i \in idx : \A j \in idx : i <= j
             IN  SubSeq(prevConnections, 1, k - 1)
                     \o SubSeq(prevConnections, k + 1, Len(prevConnections))

\* removeConnection's updater of openedConnections (lines 128-130).
removeConnection(prevConnections, syncId) ==
    SelectSeq(prevConnections, LAMBDA connection : connection.id # syncId)

\* The effect of FeedBrainStep, run when currentSyncId has changed.
EffectCurrentConnection(conns, syncId) == FindById(conns, syncId)

\* The effect without its dependency list: it runs after every render.
useEffectEveryRender(prevSyncId, syncId, prevConnection, conns) ==
    EffectCurrentConnection(conns, syncId)

\* useEffect(..., [currentSyncId]): the effect runs only in a render whose
\* currentSyncId differs from the previous one's.
useEffectCurrentConnection(prevSyncId, syncId, prevConnection, conns) ==
    IF syncId # prevSyncId
    THEN EffectCurrentConnection(conns, syncId)
    ELSE prevConnection

\* The entry the connection list opens for a sync that has none yet.
NewOpenedConnection(id) ==
    [id |-> Some(id), submitted |-> FALSE, selectedFiles |-> [files |-> <<>>]]

\* Checking or unchecking a file of the connection that is open.
ToggleFile(files, f) ==
    IF \E i \in 1..Len(files) : files[i] = f
    THEN SelectSeq(files, LAMBDA x : x # f)
    ELSE Append(files, f)

ToggleIn(conns, syncId, f) ==
    [i \in 1..Len(conns) |->
        IF conns[i].id = syncId
        THEN [conns[i] EXCEPT
                 !.selectedFiles.files = ToggleFile(conns[i].selectedFiles.files, f)]
        ELSE conns[i]]

Render(cc, conns) == Some(handleGetButtonProps(cc, conns))

Init ==
    /\ openedConnections = <<>>
    /\ currentSyncId = Undefined
    /\ currentConnection = Undefined
    /\ button = Render(Undefined, <<>>)
    /\ lastOp = "none"
    /\ calledWith = Undefined
    /\ ArrayIdle /\ NotifIdle /\ DeleteIdle /\ SyncIdle /\ UiIdle

\* A connection is opened from the list of connections.
OpenConnection(id) ==
    /\ currentSyncId = Undefined
    /\ openedConnections' =
           IF IsDefined(FindById(openedConnections, Some(id)))
           THEN openedConnections
           ELSE Append(openedConnections, NewOpenedConnection(id))
    /\ currentSyncId' = Some(id)
    /\ currentConnection' =
           useEffectCurrentConnection(currentSyncId, currentSyncId',
                                      currentConnection, openedConnections')
    /\ button' = Render(currentConnection', openedConnections')
    /\ lastOp' = "openConnection"
    /\ UNCHANGED <<calledWith, arrayVars, notifVars, deleteVars, syncVars, uiVars>>

\* A file of the open connection is checked or unchecked.
SelectFile(f) ==
    /\ IsDefined(currentSyncId)
    /\ LET new == ToggleIn(openedConnections, currentSyncId, f)
       IN  /\ \A i \in 1..Len(new) : Len(new[i].selectedFiles.files) <= MaxFiles
           /\ openedConnections' = new
    /\ UNCHANGED currentSyncId
    /\ currentConnection' =
           useEffectCurrentConnection(currentSyncId, currentSyncId',
                                      currentConnection, openedConnections')
    /\ button' = Render(currentConnection', openedConnections')
    /\ lastOp' = "selectFile"
    /\ UNCHANGED <<calledWith, arrayVars, notifVars, deleteVars, syncVars, uiVars>>

\* "Back to connections": setCurrentSyncId(undefined), then the effect.
BackToConnections ==
    /\ IsDefined(currentSyncId)
    /\ currentSyncId' = Undefined
    /\ currentConnection' =
           useEffectCurrentConnection(currentSyncId, currentSyncId',
                                      currentConnection, openedConnections)
    /\ button' = Render(currentConnection', openedConnections)
    /\ lastOp' = "backToConnections"
    /\ UNCHANGED openedConnections
    /\ UNCHANGED <<calledWith, arrayVars, notifVars, deleteVars, syncVars, uiVars>>

\* The button's callback, when it is addConnection.
ClickAddConnection ==
    /\ IsDefined(currentSyncId)
    /\ Get(button).disabled = FALSE
    /\ Get(button).callback = "addConnection"
    /\ openedConnections' = addConnection(openedConnections, currentSyncId)
    /\ currentSyncId' = Undefined
    /\ currentConnection' =
           useEffectCurrentConnection(currentSyncId, currentSyncId',
                                      currentConnection, openedConnections')
    /\ button' = Render(currentConnection', openedConnections')
    /\ lastOp' = "addConnection"
    /\ UNCHANGED <<calledWith, arrayVars, notifVars, deleteVars, syncVars, uiVars>>

\* The button's callback, when it is removeConnection.
ClickRemoveConnection ==
    /\ IsDefined(currentSyncId)
    /\ Get(button).disabled = FALSE
    /\ Get(button).callback = "removeConnection"
    /\ openedConnections' = removeConnection(openedConnections, currentSyncId)
    /\ currentSyncId' = Undefined
    /\ currentConnection' =
           useEffectCurrentConnection(currentSyncId, currentSyncId',
                                      currentConnection, openedConnections')
    /\ button' = Render(currentConnection', openedConnections')
    /\ lastOp' = "removeConnection"
    /\ UNCHANGED <<calledWith, arrayVars, notifVars, deleteVars, syncVars, uiVars>>

Next ==
    \/ \E id \in SyncIds : OpenConnection(id)
    \/ \E f \in Files : SelectFile(f)
    \/ BackToConnections
    \/ ClickAddConnection
    \/ ClickRemoveConnection

Spec == Init /\ [][Next]_vars

\* The entry addConnection acts on: the first with id = currentSyncId.
IsSubmittedIndex(i) ==
    /\ i \in 1..Len(openedConnections)
    /\ openedConnections[i].id = currentSyncId
    /\ \A j \in 1..(i - 1) : openedConnections[j].id # currentSyncId

\* C10 as stated: once addConnection has run for the connection with
\* id = currentSyncId, its entry no longer carries the selection it had.
C10_SelectionDiscardedOnSubmit ==
    [][lastOp' = "addConnection"
        => \A i \in 1..Len(openedConnections) :
               IsSubmittedIndex(i)
               => (Len(openedConnections') < i
                   \/ openedConnections'[i].selectedFiles
                          # openedConnections[i].selectedFiles)]_vars

\* C10, amended: addConnection keeps the selection; the submitted entry
\* stays in openedConnections with exactly the files it had before.
C10_SelectionKeptOnSubmit ==
    [][lastOp' = "addConnection"
        => /\ Len(openedConnections') = Len(openedConnections)
           /\ \A i \in 1..Len(openedConnections) :
                 /\ openedConnections'[i].id = openedConnections[i].id
                 /\ openedConnections'[i].selectedFiles
                        = openedConnections[i].selectedFiles
                 /\ IsSubmittedIndex(i)
                        => openedConnections'[i].submitted = TRUE]_vars

C10_Witness ==
    /\ lastOp = "addConnection"
    /\ \E i \in 1..Len(openedConnections) :
           /\ openedConnections[i].submitted
           /\ Len(openedConnections[i].selectedFiles.files) = MaxFiles

\* The entry of openedConnections that is open, when there is one.
HasOpenEntry ==
    /\ IsDefined(currentSyncId)
    /\ \E i \in 1..Len(openedConnections) :
           openedConnections[i].id = currentSyncId

OpenEntry ==
    openedConnections[CHOOSE i \in 1..Len(openedConnections) :
                          IsSubmittedIndex(i)]

\* C13: over every sequence of open, back, select and callback events, an
\* entry enters openedConnections unsubmitted; the button of the open
\* connection is "Add specific files" exactly as long as its entry is
\* unsubmitted; an entry becomes submitted only by addConnection called
\* for its id; and a submitted entry that stays in the list stays submitted.
C13_SubmittedOnlyByAddConnection ==
    /\ [](IsDefined(currentSyncId)
            => /\ HasOpenEntry
               /\ (Get(button).label = "Add specific files")
                      = ~OpenEntry.submitted
               /\ (Get(button).label \in {"Update added files", "Remove All"})
                      = OpenEntry.submitted)
    /\ [][\A j \in 1..Len(openedConnections') :
             /\ ((\A i \in 1..Len(openedConnections) :
                      openedConnections[i].id # openedConnections'[j].id)
                 => ~openedConnections'[j].submitted)
             /\ \A i \in 1..Len(openedConnections) :
                    openedConnections[i].id = openedConnections'[j].id
                    => /\ (openedConnections[i].submitted
                               => openedConnections'[j].submitted)
                       /\ ((~openedConnections[i].submitted
                               /\ openedConnections'[j].submitted)
                               => (lastOp' = "addConnection"
                                   /\ currentSyncId = openedConnections[i].id))
          ]_vars

\* A submitted connection is open beside one that was never submitted.
C13_Witness ==
    /\ HasOpenEntry
    /\ OpenEntry.submitted
    /\ Get(button).label = "Update added files"
    /\ Get(button).disabled = FALSE
    /\ \E i \in 1..Len(openedConnections) :
           /\ ~openedConnections[i].submitted
           /\ Len(openedConnections[i].selectedFiles.files) > 0

\* A step keeps currentConnection unless it changes currentSyncId, and then
\* currentConnection is the first entry of the new id in the new list.
SnapshotStep ==
    /\ (currentSyncId' = currentSyncId
           => currentConnection' = currentConnection)
    /\ (currentSyncId' # currentSyncId
           => \/ /\ currentConnection' = Undefined
                 /\ \A i \in 1..Len(openedConnections') :
                        openedConnections'[i].id # currentSyncId'
              \/ \E i \in 1..Len(openedConnections') :
                    /\ openedConnections'[i].id = currentSyncId'
                    /\ \A j \in 1..(i - 1) :
                           openedConnections'[j].id # currentSyncId'
                    /\ currentConnection' = Some(openedConnections'[i]))

\* C16: currentConnection changes only in a step that changes
\* currentSyncId, and is then the entry of that id (undefined if none); a
\* change of openedConnections alone leaves it as it is, so the button of a
\* submitted connection compares the live selection with that snapshot.
C16_SnapshotPerSyncId ==
    /\ [][SnapshotStep]_vars
    /\ []((IsDefined(currentSyncId) /\ PreviouslySubmitted /\ HasMatching
              /\ Len(NewSelection) > 0)
            => /\ Get(button).label = "Update added files"
               /\ Get(button).disabled
                      = SameMultiset(MapIds(NewSelection), MapIds(OldSelection)))

\* The live selection has moved away from the snapshot.
C16_Witness ==
    /\ IsDefined(currentSyncId) /\ PreviouslySubmitted /\ HasMatching
    /\ Len(OldSelection) = 1
    /\ Len(NewSelection) = 2
    /\ Some(OpenEntry) # currentConnection
    /\ Get(button).disabled = FALSE

(***************************************************************************)
(* SpecCallbacks: the two callbacks of the button, addConnection and       *)
(* removeConnection, on every list of opened connections and every         *)
(* currentSyncId.                                                          *)
(***************************************************************************)
CallbacksInit ==
    /\ openedConnections \in SeqsUpTo(OpenedConnection, MaxOpened)
    /\ currentSyncId \in ConnIds
    /\ currentConnection = Undefined
    /\ button = Undefined
    /\ lastOp = "none"
    /\ calledWith = Undefined
    /\ ArrayIdle /\ NotifIdle /\ DeleteIdle /\ SyncIdle /\ UiIdle

CallAddConnection ==
    /\ lastOp = "none"
    /\ openedConnections' = addConnection(openedConnections, currentSyncId)
    /\ currentSyncId' = Undefined
    /\ lastOp' = "addConnection"
    /\ calledWith' = Some([prevConnections |-> openedConnections,
                            currentSyncId |-> currentSyncId])
    /\ UNCHANGED <<currentConnection, button>>
    /\ UNCHANGED <<arrayVars, notifVars, deleteVars, syncVars, uiVars>>

CallRemoveConnection ==
    /\ lastOp = "none"
    /\ openedConnections' = removeConnection(openedConnections, currentSyncId)
    /\ currentSyncId' = Undefined
    /\ lastOp' = "removeConnection"
    /\ calledWith' = Some([prevConnections |-> openedConnections,
                            currentSyncId |-> currentSyncId])
    /\ UNCHANGED <<currentConnection, button>>
    /\ UNCHANGED <<arrayVars, notifVars, deleteVars, syncVars, uiVars>>

CallbacksNext ==
    \/ CallAddConnection
    \/ CallRemoveConnection

SpecCallbacks == CallbacksInit /\ [][CallbacksNext]_vars

\* The entries of conns whose id is not id, in their order.
RECURSIVE OthersOf(_, _)
OthersOf(conns, id) ==
    IF conns = <<>> THEN <<>>
    ELSE IF Head(conns).id = id THEN OthersOf(Tail(conns), id)
    ELSE <<Head(conns)>> \o OthersOf(Tail(conns), id)

\* C12: removeConnection removes every entry whose id is currentSyncId,
\* keeps the other entries unchanged and in their order, and sets
\* currentSyncId to undefined.
C12_RemoveDropsTheConnection ==
    [][lastOp' = "removeConnection"
        => /\ openedConnections' = OthersOf(openedConnections, currentSyncId)
           /\ \A i \in 1..Len(openedConnections') :
                  openedConnections'[i].id # currentSyncId
           /\ currentSyncId' = Undefined]_vars

\* Of the entries the first had the id and was removed, the last stayed.
C12_Witness ==
    /\ lastOp = "removeConnection"
    /\ IsDefined(calledWith)
    /\ Len(Get(calledWith).prevConnections) = MaxOpened
    /\ Get(calledWith).prevConnections[1].id = Get(calledWith).currentSyncId
    /\ Get(calledWith).prevConnections[MaxOpened].id
           # Get(calledWith).currentSyncId
    /\ openedConnections = <<Get(calledWith).prevConnections[MaxOpened]>>
    /\ currentSyncId = Undefined

\* C14: addConnection sets submitted on the first entry whose id is
\* currentSyncId and changes nothing else of openedConnections; with no
\* such entry the list is unchanged; currentSyncId becomes undefined.
C14_AddSetsOnlySubmitted ==
    [][lastOp' = "addConnection"
        => /\ Len(openedConnections') = Len(openedConnections)
           /\ \A i \in 1..Len(openedConnections) :
                  IF IsSubmittedIndex(i)
                  THEN openedConnections'[i] =
                           [id |-> openedConnections[i].id,
                            submitted |-> TRUE,
                            selectedFiles |-> openedConnections[i].selectedFiles]
                  ELSE openedConnections'[i] = openedConnections[i]
           /\ (\A i \in 1..Len(openedConnections) :
                   openedConnections[i].id # currentSyncId)
              => openedConnections' = openedConnections
           /\ currentSyncId' = Undefined]_vars

\* Two unsubmitted entries of the id: only the first was marked.
C14_Witness ==
    /\ lastOp = "addConnection"
    /\ IsDefined(calledWith)
    /\ Len(Get(calledWith).prevConnections) = 2
    /\ \A i \in 1..2 :
           /\ Get(calledWith).prevConnections[i].id
                  = Get(calledWith).currentSyncId
           /\ ~Get(calledWith).prevConnections[i].submitted
    /\ openedConnections[1].submitted
    /\ ~openedConnections[2].submitted
    /\ openedConnections[1].selectedFiles
           = Get(calledWith).prevConnections[1].selectedFiles

(***************************************************************************)
(* The Notification component (useLanguageHook.ts, lines 63-298).          *)
(***************************************************************************)
Statuses   == {"info", "success", "error"}
Categories == {"upload", "crawl", "sync"}

\* The member lists of a bulk notification: the k-th member has id k.
NotificationLists ==
    UNION {{[i \in 1..k |-> [id |-> i, status |-> f[i]]] :
                f \in [1..k -> Statuses]} : k \in 0..MaxNotifs}

HasStatus(notifs, s) == \E i \in 1..Len(notifs) : notifs[i].status = s
FilterStatus(notifs, s) == SelectSeq(notifs, LAMBDA notif : notif.status = s)

\* NotificationHeader with the two forms of "crawl" exchanged.
NotificationHeaderCrawlSwapped(cat, allNotifsProcessed) ==
    CASE cat = "upload" ->
             IF allNotifsProcessed THEN "Uploaded files " ELSE "Uploading files "
      [] cat = "crawl" ->
             IF allNotifsProcessed THEN "Crawling websites " ELSE "Crawled websites "
      [] cat = "sync" ->
             IF allNotifsProcessed THEN "Synced files " ELSE "Syncing files "

NotificationHeader(cat, allNotifsProcessed) ==
    CASE cat = "upload" ->
             IF allNotifsProcessed THEN "Uploaded files " ELSE "Uploading files "
      [] cat = "crawl" ->
             IF allNotifsProcessed THEN "Crawled websites " ELSE "Crawling websites "
      [] cat = "sync" ->
             IF allNotifsProcessed THEN "Synced files " ELSE "Syncing files "

\* NotificationIcon with every in the place of some for hasInfo.
NotificationIconEveryInfo(notifs) ==
    LET hasInfo == \A i \in 1..Len(notifs) : notifs[i].status = "info"
        allSuccess == \A i \in 1..Len(notifs) : notifs[i].status = "success"
    IN  IF hasInfo THEN [icon |-> "loader", color |-> "primary"]
        ELSE IF allSuccess THEN [icon |-> "check", color |-> "success"]
        ELSE [icon |-> "warning", color |-> "warning"]

\* NotificationIcon with some in the place of every for allSuccess.
NotificationIconSomeSuccess(notifs) ==
    LET hasInfo == \E i \in 1..Len(notifs) : notifs[i].status = "info"
        allSuccess == \E i \in 1..Len(notifs) : notifs[i].status = "success"
    IN  IF hasInfo THEN [icon |-> "loader", color |-> "primary"]
        ELSE IF allSuccess THEN [icon |-> "check", color |-> "success"]
        ELSE [icon |-> "warning", color |-> "warning"]

NotificationIcon(notifs) ==
    LET hasInfo == \E i \in 1..Len(notifs) : notifs[i].status = "info"
        allSuccess == \A i \in 1..Len(notifs) : notifs[i].status = "success"
    IN  IF hasInfo THEN [icon |-> "loader", color |-> "primary"]
        ELSE IF allSuccess THEN [icon |-> "check", color |-> "success"]
        ELSE [icon |-> "warning", color |-> "warning"]

\* NotificationCount counting the "info" members as the completed ones.
NotificationCountCountsInfo(notifs) ==
    LET total == Len(notifs)
        completed == Len(SelectSeq(notifs, LAMBDA notif : notif.status = "info"))
        hasError == \E i \in 1..Len(notifs) : notifs[i].status = "error"
    IN  [completed |-> completed, total |-> total,
         className |-> IF completed = total
                       THEN (IF hasError THEN "warning" ELSE "success")
                       ELSE ""]

\* NotificationCount with the two class names exchanged.
NotificationCountSwapped(notifs) ==
    LET total == Len(notifs)
        completed == Len(SelectSeq(notifs, LAMBDA notif : notif.status # "info"))
        hasError == \E i \in 1..Len(notifs) : notifs[i].status = "error"
    IN  [completed |-> completed, total |-> total,
         className |-> IF completed = total
                       THEN (IF hasError THEN "success" ELSE "warning")
                       ELSE ""]

NotificationCount(notifs) ==
    LET total == Len(notifs)
        completed == Len(SelectSeq(notifs, LAMBDA notif : notif.status # "info"))
        hasError == \E i \in 1..Len(notifs) : notifs[i].status = "error"
    IN  [completed |-> completed, total |-> total,
         className |-> IF completed = total
                       THEN (IF hasError THEN "warning" ELSE "success")
                       ELSE ""]

\* What Notification returns: the header, one of the two bodies, and the
\* breakdown lists that are open.
Notification(notifs, cat, errOpened, succOpened) ==
    LET allNotifsProcessed ==
            \A i \in 1..Len(notifs) : notifs[i].status # "info"
        inProgress == HasStatus(notifs, "info")
    IN  [header |-> NotificationHeader(cat, allNotifsProcessed),
         body |-> IF inProgress THEN "loader_wrapper" ELSE "status_report",
         icon |-> IF inProgress THEN Some(NotificationIcon(notifs)) ELSE Undefined,
         count |-> IF inProgress THEN Some(NotificationCount(notifs)) ELSE Undefined,
         successCounter |->
             IF ~inProgress /\ HasStatus(notifs, "success")
             THEN Some(Len(FilterStatus(notifs, "success"))) ELSE Undefined,
         errorCounter |->
             IF ~inProgress /\ HasStatus(notifs, "error")
             THEN Some(Len(FilterStatus(notifs, "error"))) ELSE Undefined,
         errorList |->
             IF errOpened THEN Some(FilterStatus(notifs, "error")) ELSE Undefined,
         successList |->
             IF succOpened THEN Some(FilterStatus(notifs, "success")) ELSE Undefined]

(***************************************************************************)
(* SpecNotif: a Notification mounted on every member list, and the clicks  *)
(* on its two counters.                                                    *)
(***************************************************************************)
NotifInit ==
    /\ notifications \in NotificationLists
    /\ category \in Categories
    /\ errorsOpened = FALSE
    /\ successOpened = FALSE
    /\ icon = Undefined
    /\ count = Undefined
    /\ view = Undefined
    /\ FeedIdle /\ ArrayIdle /\ DeleteIdle /\ SyncIdle /\ UiIdle

\* The first render; the icon and the count are also rendered on their own.
MountNotification ==
    /\ view = Undefined
    /\ view' = Some(Notification(notifications, category,
                                 errorsOpened, successOpened))
    /\ icon' = Some(NotificationIcon(notifications))
    /\ count' = Some(NotificationCount(notifications))
    /\ UNCHANGED <<notifications, category, errorsOpened, successOpened>>
    /\ UNCHANGED <<feedVars, arrayVars, deleteVars, syncVars, uiVars>>

\* The success counter's onClick without setErrorsOpened(false).
ClickSuccessKeepsErrors ==
    /\ IsDefined(view)
    /\ IsDefined(Get(view).successCounter)
    /\ successOpened' = ~successOpened
    /\ view' = Some(Notification(notifications, category,
                                 errorsOpened, successOpened'))
    /\ UNCHANGED <<notifications, category, icon, count, errorsOpened>>
    /\ UNCHANGED <<feedVars, arrayVars, deleteVars, syncVars, uiVars>>

\* onClick of the success counter (lines 231-234).
ClickSuccess ==
    /\ IsDefined(view)
    /\ IsDefined(Get(view).successCounter)
    /\ successOpened' = ~successOpened
    /\ errorsOpened' = FALSE
    /\ view' = Some(Notification(notifications, category,
                                 errorsOpened', successOpened'))
    /\ UNCHANGED <<notifications, category, icon, count>>
    /\ UNCHANGED <<feedVars, arrayVars, deleteVars, syncVars, uiVars>>

\* onClick of the error counter (lines 251-254).
ClickErrors ==
    /\ IsDefined(view)
    /\ IsDefined(Get(view).errorCounter)
    /\ errorsOpened' = ~errorsOpened
    /\ successOpened' = FALSE
    /\ view' = Some(Notification(notifications, category,
                                 errorsOpened', successOpened'))
    /\ UNCHANGED <<notifications, category, icon, count>>
    /\ UNCHANGED <<feedVars, arrayVars, deleteVars, syncVars, uiVars>>

NotifNext ==
    \/ MountNotification
    \/ ClickSuccess
    \/ ClickErrors

SpecNotif == NotifInit /\ [][NotifNext]_vars

NumberOf(s) == Cardinality({i \in 1..Len(notifications) :
                                notifications[i].status = s})

\* C4: a list with at least one "info" member is rendered as in progress
\* (loader icon, completed / total block), whatever its other members are,
\* and the status report is not rendered.
C4_InfoDominates ==
    (IsDefined(view) /\ NumberOf("info") >= 1)
    => /\ Get(icon).icon = "loader"
       /\ Get(view).body = "loader_wrapper"
       /\ IsDefined(Get(view).icon) /\ Get(Get(view).icon).icon = "loader"
       /\ IsDefined(Get(view).count)
       /\ Get(Get(view).count).total = Len(notifications)
       /\ Get(view).successCounter = Undefined
       /\ Get(view).errorCounter = Undefined

C4_Witness ==
    /\ IsDefined(view)
    /\ NumberOf("info") = 1
    /\ NumberOf("success") >= 1
    /\ NumberOf("error") >= 1
    /\ Get(view).body = "loader_wrapper"

\* C5: a list with no "info" and no "error" member, the empty list
\* included, is rendered as success.
C5_AllSuccess ==
    (IsDefined(view) /\ NumberOf("info") = 0 /\ NumberOf("error") = 0)
    => /\ Get(icon) = [icon |-> "check", color |-> "success"]
       /\ Get(count).className = "success"
       /\ Get(view).body = "status_report"
       /\ Get(view).errorCounter = Undefined
       /\ (Len(notifications) > 0
              => Get(view).successCounter = Some(Len(notifications)))

C5_Witness ==
    /\ IsDefined(view)
    /\ Len(notifications) = MaxNotifs
    /\ NumberOf("success") = MaxNotifs
    /\ Get(icon).icon = "check"

\* The members with status "error", in their original order.
RECURSIVE ErrorsOf(_)
ErrorsOf(notifs) ==
    IF notifs = <<>> THEN <<>>
    ELSE IF Head(notifs).status = "error"
         THEN <<Head(notifs)>> \o ErrorsOf(Tail(notifs))
         ELSE ErrorsOf(Tail(notifs))

\* C6: a list with no "info" and at least one "error" member is rendered
\* as warning, and the error breakdown holds exactly its "error" members,
\* in their original order.
C6_ErrorIsWarning ==
    (IsDefined(view) /\ NumberOf("info") = 0 /\ NumberOf("error") >= 1)
    => /\ Get(icon) = [icon |-> "warning", color |-> "warning"]
       /\ Get(count).className = "warning"
       /\ Get(view).body = "status_report"
       /\ Get(view).errorCounter = Some(NumberOf("error"))
       /\ (errorsOpened
              => Get(view).errorList = Some(ErrorsOf(notifications)))
       /\ (~errorsOpened => Get(view).errorList = Undefined)

C6_Witness ==
    /\ IsDefined(view)
    /\ NumberOf("info") = 0
    /\ NumberOf("error") >= 2
    /\ NumberOf("success") >= 1
    /\ errorsOpened
    /\ notifications[1].status = "error"
    /\ notifications[Len(notifications)].status = "error"
    /\ Len(Get(Get(view).errorList)) = 2

\* The members of a status, in their original order.
RECURSIVE MembersWith(_, _)
MembersWith(notifs, s) ==
    IF notifs = <<>> THEN <<>>
    ELSE IF Head(notifs).status = s
         THEN <<Head(notifs)>> \o MembersWith(Tail(notifs), s)
         ELSE MembersWith(Tail(notifs), s)

\* C17: the two breakdown lists are never both open; a click toggles its
\* own list and closes the other; an open list shows exactly the members
\* of its status and a closed one is not rendered.
C17_AtMostOneListOpen ==
    /\ [](/\ ~(successOpened /\ errorsOpened)
          /\ IsDefined(view)
             => /\ Get(view).successList =
                       IF successOpened
                       THEN Some(MembersWith(notifications, "success"))
                       ELSE Undefined
                /\ Get(view).errorList =
                       IF errorsOpened
                       THEN Some(MembersWith(notifications, "error"))
                       ELSE Undefined)
    /\ [][IsDefined(view)
             => \/ (successOpened' = ~successOpened /\ errorsOpened' = FALSE)
                \/ (errorsOpened' = ~errorsOpened /\ successOpened' = FALSE)
          ]_vars

\* The success list is open on a list that has errors too.
C17_Witness ==
    /\ IsDefined(view)
    /\ successOpened /\ ~errorsOpened
    /\ IsDefined(Get(view).errorCounter)
    /\ Len(Get(Get(view).successList)) = 2
    /\ Get(view).errorList = Undefined

CompletedForm(cat) ==
    IF cat = "upload" THEN "Uploaded files "
    ELSE IF cat = "crawl" THEN "Crawled websites "
    ELSE "Synced files "

ProgressiveForm(cat) ==
    IF cat = "upload" THEN "Uploading files "
    ELSE IF cat = "crawl" THEN "Crawling websites "
    ELSE "Syncing files "

\* C18: the header uses the completed form iff no member is "info", which
\* is exactly when the status report is rendered; otherwise it uses the
\* progressive form and the in-progress block is rendered.
C18_HeaderAgreesWithBody ==
    IsDefined(view)
    => /\ (NumberOf("info") = 0)
              => (Get(view).header = CompletedForm(category)
                  /\ Get(view).body = "status_report")
       /\ (NumberOf("info") > 0)
              => (Get(view).header = ProgressiveForm(category)
                  /\ Get(view).body = "loader_wrapper")

C18_Witness ==
    /\ IsDefined(view)
    /\ category = "crawl"
    /\ NumberOf("info") = 1
    /\ Len(notifications) = MaxNotifs
    /\ Get(view).header = "Crawling websites "

\* C19: the count rendered by Notification is completed / total with
\* total the number of members and completed the number that are not
\* "info"; there 0 <= completed < total and no success or warning class
\* is applied.
C19_CountInProgress ==
    /\ IsDefined(count)
          => /\ Get(count).total = Len(notifications)
             /\ Get(count).completed = Len(notifications) - NumberOf("info")
    /\ (IsDefined(view) /\ IsDefined(Get(view).count))
          => /\ Get(Get(view).count) = Get(count)
             /\ 0 <= Get(count).completed
             /\ Get(count).completed < Get(count).total
             /\ Get(count).className = ""

C19_Witness ==
    /\ IsDefined(view) /\ IsDefined(Get(view).count)
    /\ Get(Get(view).count).completed = 2
    /\ Get(Get(view).count).total = 3
    /\ NumberOf("error") = 1

(***************************************************************************)
(* SpecDelete: deleteNotification (lines 187-195).  The map issues one     *)
(* delete per member in one synchronous pass, Promise.all awaits them all, *)
(* and updateNotifications is called once Promise.all has resolved.  Each  *)
(* delete ends deleted (the row is gone), failed (it resolved with an      *)
(* error and the row stays) or rejected (it threw); which is the store's   *)
(* choice.                                                                 *)
(***************************************************************************)
Settled == {"deleted", "failed", "rejected"}

\* deletePromises = notifications.map(async (notification) => ...): one
\* promise per member, carrying the id of its delete.
NewRequests(notifs) ==
    [i \in 1..Len(notifs) |-> [id |-> notifs[i].id, state |-> "none"]]

AllIssued(reqs) == \A i \in 1..Len(reqs) : reqs[i].state # "none"

\* A Promise.race in the place of Promise.all: resolved by the first answer.
PromiseRace(reqs) ==
    IF \E i \in 1..Len(reqs) : reqs[i].state = "rejected" THEN "rejected"
    ELSE IF reqs = <<>> \/ \E i \in 1..Len(reqs) :
                               reqs[i].state \in {"deleted", "failed"}
         THEN "resolved"
    ELSE "pending"

\* A Promise.allSettled in its place: a rejection is swallowed.
PromiseAllSettled(reqs) ==
    IF \A i \in 1..Len(reqs) : reqs[i].state \in Settled
    THEN "resolved"
    ELSE "pending"

\* Promise.all: rejected as soon as one promise is, resolved when all are.
PromiseAll(reqs) ==
    IF \E i \in 1..Len(reqs) : reqs[i].state = "rejected" THEN "rejected"
    ELSE IF \A i \in 1..Len(reqs) : reqs[i].state \in {"deleted", "failed"}
         THEN "resolved"
    ELSE "pending"

\* updateNotifications: the list is read again from the store.
updateNotifications(notifs, rows) ==
    SelectSeq(notifs, LAMBDA notif : notif.id \in rows)

DeleteInit ==
    /\ notifications \in NotificationLists
    /\ store = {notifications[i].id : i \in 1..Len(notifications)}
    /\ delPc = "idle"
    /\ requests = <<>>
    /\ refreshes = 0
    /\ category = "upload"
    /\ errorsOpened = FALSE /\ successOpened = FALSE
    /\ icon = Undefined /\ count = Undefined /\ view = Undefined
    /\ FeedIdle /\ ArrayIdle /\ SyncIdle /\ UiIdle

\* onDelete: deleteNotification is called and its map starts.  One call is
\* followed at a time: the next click comes after the last call has ended,
\* and the answers still due to a rejected call are not followed further.
ClickDelete ==
    /\ delPc \in {"idle", "rejected", "done"}
    /\ delPc = "done" => notifications # <<>>
    /\ delPc' = "mapping"
    /\ requests' = NewRequests(notifications)
    /\ refreshes' = 0
    /\ UNCHANGED store
    /\ UNCHANGED <<feedVars, arrayVars, notifVars, syncVars, uiVars>>

\* The map's callback for the next member: its delete is sent.
IssueDelete ==
    /\ delPc = "mapping"
    /\ \E k \in 1..Len(requests) :
          /\ requests[k].state = "none"
          /\ \A j \in 1..(k - 1) : requests[j].state # "none"
          /\ requests' = [requests EXCEPT ![k].state = "pending"]
    /\ UNCHANGED <<store, delPc, refreshes>>
    /\ UNCHANGED <<feedVars, arrayVars, notifVars, syncVars, uiVars>>

\* await Promise.all(deletePromises): the handler yields.
AwaitAll ==
    /\ delPc = "mapping"
    /\ AllIssued(requests)
    /\ delPc' = "awaiting"
    /\ UNCHANGED <<store, requests, refreshes>>
    /\ UNCHANGED <<feedVars, arrayVars, notifVars, syncVars, uiVars>>

\* The store answers one delete.  No answer is handled while the map runs.
SettleDelete(k, outcome) ==
    /\ delPc \in {"awaiting", "rejected"}
    /\ k \in 1..Len(requests)
    /\ requests[k].state = "pending"
    /\ requests' = [requests EXCEPT ![k].state = outcome]
    /\ store' = IF outcome = "deleted" THEN store \ {requests[k].id} ELSE store
    /\ UNCHANGED <<delPc, refreshes>>
    /\ UNCHANGED <<feedVars, arrayVars, notifVars, syncVars, uiVars>>

\* Promise.all resolved: await updateNotifications().
RefreshAfterDelete ==
    /\ delPc = "awaiting"
    /\ PromiseAll(requests) = "resolved"
    /\ refreshes' = refreshes + 1
    /\ notifications' = updateNotifications(notifications, store)
    /\ delPc' = "done"
    /\ UNCHANGED <<store, requests>>
    /\ UNCHANGED <<category, errorsOpened, successOpened, icon, count, view>>
    /\ UNCHANGED <<feedVars, arrayVars, syncVars, uiVars>>

\* Promise.all rejected: the await throws and deleteNotification ends.
RejectDelete ==
    /\ delPc = "awaiting"
    /\ PromiseAll(requests) = "rejected"
    /\ delPc' = "rejected"
    /\ UNCHANGED <<store, requests, refreshes>>
    /\ UNCHANGED <<feedVars, arrayVars, notifVars, syncVars, uiVars>>

DeleteNext ==
    \/ ClickDelete
    \/ IssueDelete
    \/ AwaitAll
    \/ \E k \in 1..Len(requests), outcome \in Settled : SettleDelete(k, outcome)
    \/ RefreshAfterDelete
    \/ RejectDelete

SpecDelete == DeleteInit /\ [][DeleteNext]_vars

StateOf(k) == requests[k].state
AnyRejected == \E k \in 1..Len(requests) : StateOf(k) = "rejected"

C9_NoRollbackNoRefresh ==
    /\ (\E k \in 1..Len(requests) : StateOf(k) \in Settled)
          => AllIssued(requests)
    /\ \A k \in 1..Len(requests) :
          StateOf(k) = "deleted" => requests[k].id \notin store
    /\ AnyRejected
          => /\ refreshes = 0
             /\ delPc \in {"awaiting", "rejected"}
             /\ Len(notifications) = Len(requests)
             /\ \A k \in 1..Len(requests) :
                    notifications[k].id = requests[k].id

\* A member still displayed although its row is gone from the store.
C9_Witness ==
    /\ delPc = "rejected"
    /\ refreshes = 0
    /\ \E k \in 1..Len(requests) : StateOf(k) = "deleted"
    /\ \E i \in 1..Len(notifications) : notifications[i].id \notin store

(***************************************************************************)
(* SpecSync: syncFiles and updateActiveSync (sync.ts) on every selection.  *)
(* Of a KMSElement only sync_file_id (a string or null) and is_folder are  *)
(* read.                                                                   *)
(***************************************************************************)
SyncFileIds == FileIds \cup {Undefined}
KMSElement  == [sync_file_id : SyncFileIds, is_folder : BOOLEAN]

MapSyncFileIds(files) == [i \in 1..Len(files) |-> files[i].sync_file_id]

\* createFilesSettings without its filter.
createFilesSettingsNoFilter(files) == MapSyncFileIds(files)

createFilesSettings(files) ==
    MapSyncFileIds(SelectSeq(files, LAMBDA file : ~file.is_folder))

createFoldersSettings(files) ==
    MapSyncFileIds(SelectSeq(files, LAMBDA file : file.is_folder))

\* settings: { files, folders } of both requests.
SyncSettings(selectedFiles) ==
    [files |-> createFilesSettings(selectedFiles),
     folders |-> createFoldersSettings(selectedFiles)]

SyncInit ==
    /\ syncSelected \in SeqsUpTo(KMSElement, MaxSelected)
    /\ syncRequest = Undefined
    /\ FeedIdle /\ ArrayIdle /\ NotifIdle /\ DeleteIdle /\ UiIdle

\* syncFiles: POST /sync/active.
CallSyncFiles ==
    /\ syncRequest = Undefined
    /\ syncRequest' = Some([method |-> "POST", url |-> "/sync/active",
                            settings |-> SyncSettings(syncSelected)])
    /\ UNCHANGED syncSelected
    /\ UNCHANGED <<feedVars, arrayVars, notifVars, deleteVars, uiVars>>

\* updateActiveSync: PUT /sync/active/{id}.
CallUpdateActiveSync ==
    /\ syncRequest = Undefined
    /\ syncRequest' = Some([method |-> "PUT", url |-> "/sync/active/{id}",
                            settings |-> SyncSettings(syncSelected)])
    /\ UNCHANGED syncSelected
    /\ UNCHANGED <<feedVars, arrayVars, notifVars, deleteVars, uiVars>>

SyncNext ==
    \/ CallSyncFiles
    \/ CallUpdateActiveSync

SpecSync == SyncInit /\ [][SyncNext]_vars

\* The positions of the selection that are folders (or are not).
PositionsOf(isFolder) ==
    {i \in 1..Len(syncSelected) : syncSelected[i].is_folder = isFolder}

\* s lists the sync_file_id of the positions in pos, in increasing order.
ListsPositions(s, pos) ==
    /\ Len(s) = Cardinality(pos)
    /\ \A i \in pos :
           s[Cardinality({j \in pos : j <= i})] = syncSelected[i].sync_file_id

\* C20: the settings of both requests partition the selection by
\* is_folder: files holds the sync_file_id of exactly the non-folders and
\* folders that of exactly the folders, each in selection order, so that
\* |files| + |folders| is the number of selected elements.
C20_SettingsPartitionSelection ==
    IsDefined(syncRequest)
    => LET settings == Get(syncRequest).settings
       IN  /\ ListsPositions(settings.files, PositionsOf(FALSE))
           /\ ListsPositions(settings.folders, PositionsOf(TRUE))
           /\ Len(settings.files) + Len(settings.folders) = Len(syncSelected)

C20_Witness ==
    /\ IsDefined(syncRequest)
    /\ Get(syncRequest).method = "PUT"
    /\ Len(syncSelected) = MaxSelected
    /\ syncSelected[1].is_folder
    /\ ~syncSelected[2].is_folder
    /\ syncSelected[3].is_folder
    /\ Len(Get(syncRequest).settings.folders) = MaxSelected - 1
    /\ Len(Get(syncRequest).settings.files) = 1

(***************************************************************************)
(* OutputsStep.tsx: the two "upload on a brain" checkboxes and the brain   *)
(* selector.  A click runs its setChecked closure on the state of the      *)
(* render it was created in, and React renders again before the next one.  *)
(***************************************************************************)
BrainIds == {"b1", "b2", "b3"}

\* A brain of the context.  uploadRole stands for the answer of
\* requiredRolesForUpload.includes(brain.role); the name follows the id.
Brain ==
    {[id |-> i, name |-> <<"name of", i>>, uploadRole |-> r, max_files |-> m] :
        i \in BrainIds, r \in BOOLEAN, m \in {0, 1}}

BrainLists ==
    {l \in SeqsUpTo(Brain, MaxBrains) :
        \A i, j \in 1..Len(l) : l[i].id = l[j].id => i = j}

RECURSIVE FilterUpload(_)
FilterUpload(brains) ==
    IF brains = <<>> THEN <<>>
    ELSE IF Head(brains).uploadRole /\ Head(brains).max_files # 0
         THEN <<Head(brains)>> \o FilterUpload(Tail(brains))
         ELSE FilterUpload(Tail(brains))

\* The options of the selector: one per brain the user may upload to.
brainsWithUploadRights(brains) ==
    LET kept == FilterUpload(brains)
    IN  [i \in 1..Len(kept) |-> [value |-> kept[i].id, label |-> kept[i].name]]

\* allBrains.find((brain) => brain.id === selectedBrainId)?.name
FindBrainName(brains, id) ==
    IF \E i \in 1..Len(brains) : brains[i].id = id
    THEN Some(brains[CHOOSE i \in 1..Len(brains) :
                         /\ brains[i].id = id
                         /\ \A j \in 1..(i - 1) : brains[j].id # id].name)
    ELSE Undefined

selectedOption(brains, id) ==
    IF id # ""
    THEN Some([value |-> id, label |-> FindBrainName(brains, id)])
    ELSE Undefined

\* What the setChecked closure of one checkbox leaves in the two states:
\* own is the state of the clicked checkbox, other that of the other one.
setCheckedKeepsOther(own, other) ==
    LET newCheckedState == ~own
    IN  [own |-> newCheckedState, other |-> other]

setChecked(own, other) ==
    LET newCheckedState == ~own
    IN  [own |-> newCheckedState,
         other |-> IF newCheckedState THEN FALSE ELSE other]

\* {existingBrainChecked && <SingleSelector ... />}
RenderBrainSelector(existing, brains, id) ==
    IF existing
    THEN Some([options |-> brainsWithUploadRights(brains),
               selectedOption |-> selectedOption(brains, id)])
    ELSE Undefined

OutputsInit ==
    /\ allBrains \in BrainLists
    /\ existingBrainChecked = FALSE
    /\ newBrainChecked = FALSE
    /\ selectedBrainId = ""
    /\ brainOutput = Undefined
    /\ brainSelector = RenderBrainSelector(FALSE, allBrains, "")
    /\ lastClick = "none"
    /\ FeedIdle /\ ArrayIdle /\ NotifIdle /\ DeleteIdle /\ SyncIdle
    /\ KnowledgeIdle /\ LangIdle

ClickExistingBrain ==
    LET next == setChecked(existingBrainChecked, newBrainChecked)
    IN  /\ existingBrainChecked' = next.own
        /\ newBrainChecked' = next.other
        /\ brainSelector' =
               RenderBrainSelector(next.own, allBrains, selectedBrainId)
        /\ lastClick' = "existing"
        /\ UNCHANGED <<allBrains, selectedBrainId, brainOutput>>
        /\ UNCHANGED <<feedVars, arrayVars, notifVars, deleteVars, syncVars,
                     knowledgeVars, langVars>>

ClickNewBrain ==
    LET next == setChecked(newBrainChecked, existingBrainChecked)
    IN  /\ newBrainChecked' = next.own
        /\ existingBrainChecked' = next.other
        /\ brainSelector' =
               RenderBrainSelector(next.other, allBrains, selectedBrainId)
        /\ lastClick' = "new"
        /\ UNCHANGED <<allBrains, selectedBrainId, brainOutput>>
        /\ UNCHANGED <<feedVars, arrayVars, notifVars, deleteVars, syncVars,
                     knowledgeVars, langVars>>

\* onChange of the selector, which exists only while it is rendered.
SelectBrain(k) ==
    /\ IsDefined(brainSelector)
    /\ k \in 1..Len(Get(brainSelector).options)
    /\ LET brain == Get(brainSelector).options[k].value
       IN  /\ brainOutput' = Some(brain)
           /\ selectedBrainId' = brain
           /\ brainSelector' =
                  RenderBrainSelector(existingBrainChecked, allBrains, brain)
    /\ lastClick' = "select"
    /\ UNCHANGED <<allBrains, existingBrainChecked, newBrainChecked>>
    /\ UNCHANGED <<feedVars, arrayVars, notifVars, deleteVars, syncVars,
                     knowledgeVars, langVars>>

OutputsNext ==
    \/ ClickExistingBrain
    \/ ClickNewBrain
    \/ \E k \in 1..MaxBrains : SelectBrain(k)

SpecOutputs == OutputsInit /\ [][OutputsNext]_vars

\* What a click on one of the two checkboxes does to both.
ExclusiveClick ==
    /\ (lastClick' = "existing"
          => /\ existingBrainChecked' = ~existingBrainChecked
             /\ (existingBrainChecked' => ~newBrainChecked')
             /\ (~existingBrainChecked' => newBrainChecked' = newBrainChecked))
    /\ (lastClick' = "new"
          => /\ newBrainChecked' = ~newBrainChecked
             /\ (newBrainChecked' => ~existingBrainChecked')
             /\ (~newBrainChecked'
                   => existingBrainChecked' = existingBrainChecked))

\* C21: the two upload checkboxes are never both checked; a click that
\* checks one unchecks the other, a click that unchecks one leaves the other
\* as it was; the brain selector is rendered iff existingBrainChecked.
C21_UploadTargetsExclusive ==
    /\ [](/\ ~(existingBrainChecked /\ newBrainChecked)
          /\ IsDefined(brainSelector) = existingBrainChecked)
    /\ [][ExclusiveClick]_vars

\* "existing" is checked, a brain was chosen and the selector shows it.
C21_Witness ==
    /\ lastClick = "existing"
    /\ existingBrainChecked
    /\ ~newBrainChecked
    /\ IsDefined(brainOutput)
    /\ IsDefined(brainSelector)
    /\ IsDefined(Get(brainSelector).selectedOption)


(***************************************************************************)
(* KnowledgeTable: the selection list and its handleSelect.  An id is a    *)
(* string, modelled as its code units ("k1", "k2", ...).                   *)
(***************************************************************************)
KnowledgeIds == {<<107, 48 + i>> : i \in 1..MaxKnowledge}

Knowledge == [id : KnowledgeIds]

KnowledgeLists ==
    {l \in SeqsUpTo(Knowledge, MaxKnowledge) :
        \A i, j \in 1..Len(l) : l[i].id = l[j].id => i = j}

\* prevSelected.includes(id)
Includes(s, x) == \E i \in 1..Len(s) : s[i] = x

\* prevSelected.filter((selectedId) => selectedId !== id)
RECURSIVE FilterNot(_, _)
FilterNot(s, x) ==
    IF s = <<>> THEN <<>>
    ELSE IF Head(s) # x THEN <<Head(s)>> \o FilterNot(Tail(s), x)
         ELSE FilterNot(Tail(s), x)

\* The updater handleSelect hands to setSelectedKnowledge.
handleSelectAppends(prevSelected, id) == prevSelected \o <<id>>

handleSelect(prevSelected, id) ==
    IF Includes(prevSelected, id)
    THEN FilterNot(prevSelected, id)
    ELSE prevSelected \o <<id>>

\* The last two entries of h.
LastTwo(h) == IF Len(h) > 2 THEN SubSeq(h, Len(h) - 1, Len(h)) ELSE h

KnowledgeInit ==
    /\ knowledgeList \in KnowledgeLists
    /\ selectedKnowledge = <<>>
    /\ selectHistory = <<>>
    /\ FeedIdle /\ ArrayIdle /\ NotifIdle /\ DeleteIdle /\ SyncIdle
    /\ OutputsIdle /\ LangIdle

\* setSelected of the k-th KnowledgeItem: handleSelect(knowledge.id).
ClickKnowledgeItem(k) ==
    /\ k \in 1..Len(knowledgeList)
    /\ selectedKnowledge' = handleSelect(selectedKnowledge, knowledgeList[k].id)
    /\ selectHistory' =
           LastTwo(Append(selectHistory,
                          [id |-> knowledgeList[k].id,
                           prevSelected |-> selectedKnowledge]))
    /\ UNCHANGED knowledgeList
    /\ UNCHANGED <<feedVars, arrayVars, notifVars, deleteVars, syncVars,
                   outputsVars, langVars>>

KnowledgeNext == \E k \in 1..MaxKnowledge : ClickKnowledgeItem(k)

SpecKnowledge == KnowledgeInit /\ [][KnowledgeNext]_vars

NoDuplicate(s) == \A i, j \in 1..Len(s) : s[i] = s[j] => i = j

ElementsOf(s) == {s[i] : i \in 1..Len(s)}

\* next is prev with id put at the end.
AddedAtEnd(prev, id, next) ==
    /\ Len(next) = Len(prev) + 1
    /\ next[Len(next)] = id
    /\ \A i \in 1..Len(prev) : next[i] = prev[i]

\* next is prev with its entry id taken out, the rest in place.
TakenOut(prev, id, next) ==
    \E p \in 1..Len(prev) :
        /\ prev[p] = id
        /\ Len(next) = Len(prev) - 1
        /\ \A i \in 1..(p - 1) : next[i] = prev[i]
        /\ \A i \in p..Len(next) : next[i] = prev[i + 1]

\* The last call did what a toggle does.
LastCallToggled ==
    selectHistory # <<>>
    => LET last == selectHistory[Len(selectHistory)]
       IN  IF last.id \in ElementsOf(last.prevSelected)
           THEN TakenOut(last.prevSelected, last.id, selectedKnowledge)
           ELSE AddedAtEnd(last.prevSelected, last.id, selectedKnowledge)

\* The last two calls had the same id.
SameIdTwice ==
    /\ Len(selectHistory) = 2
    /\ selectHistory[1].id = selectHistory[2].id

\* C22: starting from the empty selection, selectedKnowledge never holds an
\* id twice; handleSelect(id) puts id at the end if it was absent and takes
\* it out if it was present, the other ids staying in their order; two calls
\* in a row with the same id give back the same set of selected ids.
C22_HandleSelectToggles ==
    /\ NoDuplicate(selectedKnowledge)
    /\ LastCallToggled
    /\ (SameIdTwice
          => ElementsOf(selectedKnowledge)
                 = ElementsOf(selectHistory[1].prevSelected))

\* An id in the middle of a full selection was taken out and put back: the
\* set is the same, the order is not.
C22_Witness ==
    /\ SameIdTwice
    /\ Len(selectedKnowledge) = MaxKnowledge
    /\ selectHistory[1].prevSelected # selectedKnowledge
    /\ selectHistory[1].id = selectHistory[1].prevSelected[2]


(***************************************************************************)
(* useLanguageHook: the current language, its copy in localStorage and the *)
(* i18n instance.  null and a missing key are the undefined of this model. *)
(* i18n.changeLanguage returns a promise the hook discards (void): the     *)
(* language of i18n changes when it resolves.                              *)
(***************************************************************************)
languages == <<[id |-> "en", name |-> "English"],
               [id |-> "es", name |-> "Espanol"]>>

\* What the key may hold when the hook mounts: nothing, a supported id, an
\* id that is not supported (=== tells "EN" from "en"), the empty string.
StoredLanguages ==
    {Undefined, Some("en"), Some("es"), Some("fr"), Some("EN"), Some("")}

\* The languages change may be called with: those offered, and one that is
\* not among them.
LanguageArgs ==
    {languages[i] : i \in 1..Len(languages)}
        \cup {[id |-> "fr", name |-> "Francais"]}

I18nLanguages == {"en", "es", "fr"}

\* languages.find(lang => lang.id === savedLanguage)
FindLanguage(langs, id) ==
    IF \E i \in 1..Len(langs) : langs[i].id = id
    THEN Some(langs[CHOOSE i \in 1..Len(langs) :
                        /\ langs[i].id = id
                        /\ \A j \in 1..(i - 1) : langs[j].id # id])
    ELSE Undefined

\* The body of the effect, given what localStorage.getItem returned: the
\* two values it leaves behind and the id it hands to i18n.changeLanguage.
EffectKeepsStorage(savedLanguage) ==
    LET foundLanguage ==
            IF savedLanguage # Undefined
            THEN FindLanguage(languages, Get(savedLanguage))
            ELSE Undefined
    IN  IF IsDefined(foundLanguage)
        THEN [currentLanguage |-> foundLanguage,
              localStorage |-> savedLanguage,
              changeLanguage |-> Some(Get(foundLanguage).id)]
        ELSE [currentLanguage |-> Some(languages[1]),
              localStorage |-> savedLanguage,
              changeLanguage |-> Undefined]

EffectLanguage(savedLanguage) ==
    LET foundLanguage ==
            IF savedLanguage # Undefined
            THEN FindLanguage(languages, Get(savedLanguage))
            ELSE Undefined
    IN  IF IsDefined(foundLanguage)
        THEN [currentLanguage |-> foundLanguage,
              localStorage |-> savedLanguage,
              changeLanguage |-> Some(Get(foundLanguage).id)]
        ELSE [currentLanguage |-> Some(languages[1]),
              localStorage |-> Some(languages[1].id),
              changeLanguage |-> Undefined]

\* The first render: the hook's states at their initial values, the effect
\* not yet run.
LangInit ==
    /\ localStorage \in StoredLanguages
    /\ i18nLanguage \in I18nLanguages
    /\ i18nPending = <<>>
    /\ allLanguages = <<>>
    /\ currentLanguage = Undefined
    /\ langHistory = Undefined
    /\ FeedIdle /\ ArrayIdle /\ NotifIdle /\ DeleteIdle /\ SyncIdle
    /\ OutputsIdle /\ KnowledgeIdle

RunEffect(op) ==
    LET after == EffectLanguage(localStorage)
    IN  /\ Len(i18nPending) + Len(after.changeLanguage) <= MaxPending
        /\ allLanguages' = languages
        /\ currentLanguage' = after.currentLanguage
        /\ localStorage' = after.localStorage
        /\ i18nPending' = i18nPending \o after.changeLanguage
        /\ UNCHANGED i18nLanguage
        /\ langHistory' = Some([op |-> op, savedLanguage |-> localStorage,
                                newLanguage |-> Undefined])
        /\ UNCHANGED <<feedVars, arrayVars, notifVars, deleteVars, syncVars,
                       outputsVars, knowledgeVars>>

\* useEffect(..., [i18n]) after the first render.
MountLanguageHook ==
    /\ langHistory = Undefined
    /\ RunEffect("init")

\* The same effect when a render brings another i18n instance.
I18nChanged ==
    /\ langHistory # Undefined
    /\ RunEffect("init")

change(newLanguage) ==
    /\ langHistory # Undefined
    /\ Len(i18nPending) < MaxPending
    /\ currentLanguage' = Some(newLanguage)
    /\ localStorage' = Some(newLanguage.id)
    /\ i18nPending' = Append(i18nPending, newLanguage.id)
    /\ UNCHANGED i18nLanguage
    /\ langHistory' = Some([op |-> "change", savedLanguage |-> localStorage,
                            newLanguage |-> Some(newLanguage)])
    /\ UNCHANGED allLanguages
    /\ UNCHANGED <<feedVars, arrayVars, notifVars, deleteVars, syncVars,
                   outputsVars, knowledgeVars>>

\* The promise of the oldest changeLanguage call resolves.
I18nLoaded ==
    /\ i18nPending # <<>>
    /\ i18nLanguage' = Head(i18nPending)
    /\ i18nPending' = Tail(i18nPending)
    /\ UNCHANGED <<localStorage, allLanguages, currentLanguage, langHistory>>
    /\ UNCHANGED <<feedVars, arrayVars, notifVars, deleteVars, syncVars,
                   outputsVars, knowledgeVars>>

LangNext ==
    \/ MountLanguageHook
    \/ I18nChanged
    \/ I18nLoaded
    \/ \E l \in LanguageArgs : change(l)

SpecLanguage == LangInit /\ [][LangNext]_vars

SupportedIds == {"en", "es"}

\* The effect ran last, on a stored id that is supported.
InitRestored ==
    LET h == Get(langHistory)
    IN  /\ IsDefined(h.savedLanguage)
        /\ Get(h.savedLanguage) \in SupportedIds
        /\ Get(currentLanguage).id = Get(h.savedLanguage)
        /\ Get(currentLanguage) \in {languages[i] : i \in 1..Len(languages)}
        /\ localStorage = h.savedLanguage

\* The effect ran last, on a key that was missing or held another id.
InitDefaulted ==
    LET h == Get(langHistory)
    IN  /\ (IsDefined(h.savedLanguage)
              => Get(h.savedLanguage) \notin SupportedIds)
        /\ Get(currentLanguage) = [id |-> "en", name |-> "English"]
        /\ localStorage = Some("en")

\* C23: once the effect has run, and after every change(L), the value under
\* 'selectedLanguage' is currentLanguage.id; the effect restores a stored id
\* that is "en" or "es" as currentLanguage, and on a missing or unsupported
\* one sets currentLanguage to "en" and stores "en".
C23_StoredLanguageInStep ==
    IsDefined(langHistory)
    => /\ IsDefined(currentLanguage)
       /\ localStorage = Some(Get(currentLanguage).id)
       /\ (Get(langHistory).op = "init" => (InitRestored \/ InitDefaulted))
       /\ (Get(langHistory).op = "change"
             => currentLanguage = Get(langHistory).newLanguage)

\* The hook mounted on an unsupported stored id and fell back to "en".
C23_Witness ==
    /\ IsDefined(langHistory)
    /\ Get(langHistory).op = "init"
    /\ Get(langHistory).savedLanguage = Some("fr")
    /\ localStorage = Some("en")
    /\ Get(currentLanguage).id = "en"


====
